---- MODULE Spec2Model ----
(***************************************************************************)
(* The multiplexed tunnel engine of src/index2.js: one WebSocket carrying  *)
(* virtual TCP streams and UDP flows keyed by a client-chosen connection   *)
(* id, and the admission gate in front of it.                              *)
(*                                                                         *)
(* Strings are sequences of one-character strings.  A frame is the record  *)
(* [bin, tag, body]: bin is the WebSocket binary flag, tag the text before *)
(* the first ':' and body the text after it.  No tag the handlers test for *)
(* is a prefix of another, so startsWith('TAG:') is tag equality.          *)
(***************************************************************************)
EXTENDS Integers, Sequences, FiniteSets, TLC

\* Bounds of the model.
MaxSock == 2    \* sockets (TCP and UDP together) a tunnel creates
MaxIo == 1      \* payloads written to TCP streams and datagrams sent
MaxOut == 3     \* frames sent on the WebSocket
MaxWrites == 2  \* payloads written where the order of the writes is at stake

VARIABLES
  wsState,     \* ws.readyState: "open" (1), "closing" (2), "closed" (3)
  sess,        \* the net.Socket objects created by handleTCPConnect, in creation order
  conns,       \* Map connID -> index in sess
  udp,         \* the dgram sockets created by handleUDPConnect, in creation order
  udpConns,    \* Map connID -> index in udp
  udpTargets,  \* Map connID -> {host, port}
  out,         \* the frames the TCP listeners have sent on the WebSocket, in order
  branch,      \* what the handler that ran last did
  env,         \* process.env: TOKEN, WS_PATH, CIDRS (after the || defaults)
  adm,         \* the upgrade request handled last, and what the handler did with it
  peer         \* the tunnel of a second WebSocket of the process: its readyState,
               \* tables and sockets, and frames

vars == <<wsState, sess, conns, udp, udpConns, udpTargets, out, branch, env, adm, peer>>

----------------------------------------------------------------------------
\* String helpers (JavaScript semantics).

\* String.prototype.indexOf(ch): 0-based, -1 when absent.
RECURSIVE IndexFrom(_, _, _)
IndexFrom(s, ch, i) ==
  IF i > Len(s) THEN -1
  ELSE IF s[i] = ch THEN i - 1
  ELSE IndexFrom(s, ch, i + 1)

IndexOf(s, ch) == IndexFrom(s, ch, 1)

\* String.prototype.slice(from) and slice(0, to)
SliceFrom(s, from) == SubSeq(s, from + 1, Len(s))
SliceTo(s, to) == SubSeq(s, 1, to)

\* String.prototype.split(ch): every field, no limit.
RECURSIVE Split(_, _)
Split(s, ch) ==
  LET i == IndexOf(s, ch)
  IN IF i = -1 THEN <<s>>
     ELSE <<SliceTo(s, i)>> \o Split(SliceFrom(s, i + 1), ch)

Digits == <<"0", "1", "2", "3", "4", "5", "6", "7", "8", "9">>
IsDigit(c) == \E d \in 1..10 : Digits[d] = c
DigitVal(c) == (CHOOSE d \in 1..10 : Digits[d] = c) - 1

\* parseInt(s): the leading decimal digits; NaN when there is none.
RECURSIVE ParseDigits(_, _)
ParseDigits(s, acc) ==
  IF s = <<>> \/ ~IsDigit(Head(s)) THEN acc
  ELSE ParseDigits(Tail(s), acc * 10 + DigitVal(Head(s)))

ParseInt(s) ==
  IF s = <<>> \/ ~IsDigit(Head(s)) THEN [nan |-> TRUE, val |-> 0]
  ELSE [nan |-> FALSE, val |-> ParseDigits(s, 0)]

\* const [host, port] = targetAddr.split(':'); parseInt(port)
ParseTarget(targetAddr) ==
  LET p == Split(targetAddr, ":")
  IN [host |-> p[1],
      port |-> IF Len(p) >= 2 THEN ParseInt(p[2]) ELSE [nan |-> TRUE, val |-> 0]]

----------------------------------------------------------------------------
\* The admission gate.  Addresses and CIDRs are strings as the code sees them;
\* the 32-bit operators work on the unsigned value of the int32 results.

\* An int32 is its 32 bits, bit 0 the lowest.
Word == 0..31

RECURSIVE Pow2(_)
Pow2(k) == IF k = 0 THEN 1 ELSE 2 * Pow2(k - 1)

\* ToInt32 of a number below 2^31.
Int32(n) == [i \in Word |-> IF i = 31 THEN 0 ELSE (n \div Pow2(i)) % 2]

\* x << k: the count is taken modulo 32.
Shl32(x, k) == [i \in Word |-> IF i >= k % 32 THEN x[i - (k % 32)] ELSE 0]

\* ~x, x & y, x | y
Not32(x) == [i \in Word |-> 1 - x[i]]
And32(x, y) == [i \in Word |-> IF x[i] = 1 /\ y[i] = 1 THEN 1 ELSE 0]
Or32(x, y) == [i \in Word |-> IF x[i] = 1 \/ y[i] = 1 THEN 1 ELSE 0]

\* x - 1 (the difference is taken back to 32 bits by the ~ that follows)
Dec32(x) ==
  IF \A i \in Word : x[i] = 0 THEN [i \in Word |-> 1]
  ELSE LET low == CHOOSE j \in Word : x[j] = 1 /\ \A i \in 0..(j - 1) : x[i] = 0
       IN [i \in Word |-> IF i < low THEN 1 ELSE IF i = low THEN 0 ELSE x[i]]

\* Number(s) followed by ToInt32: the decimal value; 0 for the empty string,
\* for a string that is no number (NaN) and for a missing part (undefined).
RECURSIVE AllDigits(_)
AllDigits(s) == s = <<>> \/ (IsDigit(Head(s)) /\ AllDigits(Tail(s)))

NumberToInt32(s) == IF AllDigits(s) THEN Int32(ParseDigits(s, 0)) ELSE Int32(0)

\* (ipParts[0] << 24) | (ipParts[1] << 16) | (ipParts[2] << 8) | ipParts[3]
IpNum(ip) ==
  LET ipParts == Split(ip, ".")
      part(n) == IF n <= Len(ipParts) THEN NumberToInt32(ipParts[n]) ELSE Int32(0)
  IN Or32(Or32(Or32(Shl32(part(1), 24), Shl32(part(2), 16)), Shl32(part(3), 8)), part(4))

\* 32 - bits as a shift count: NaN counts as 0.
ShiftCount(bits) == IF bits.nan THEN 0 ELSE (32 - bits.val) % 32

parseCIDR(cidr) ==
  LET parts == Split(cidr, "/")
      bits == IF Len(parts) >= 2 THEN ParseInt(parts[2]) ELSE [nan |-> TRUE, val |-> 0]
      ipNum == IpNum(parts[1])
      mask == Not32(Dec32(Shl32(Int32(1), ShiftCount(bits))))
  IN [network |-> And32(ipNum, mask), mask |-> mask]

Includes(list, x) == \E i \in DOMAIN list : list[i] = x

AnyV4 == <<"0", ".", "0", ".", "0", ".", "0", "/", "0">>
AnyV6 == <<":", ":", "/", "0">>

isIPInCIDR(ip, cidrList) ==
  \/ Includes(cidrList, AnyV4)
  \/ Includes(cidrList, AnyV6)
  \/ LET ipNum == IpNum(ip)
     IN \E i \in DOMAIN cidrList :
          /\ ~Includes(cidrList[i], ":")
          /\ LET c == parseCIDR(cidrList[i])
             IN And32(ipNum, c.mask) = c.network

\* const allowedCIDRs = CIDRS.split(',').map(c => c.trim()); the lists of
\* the model hold no blanks.
allowedCIDRs == Split(env.CIDRS, ",")

\* String.prototype.replace(pat, ''): the first occurrence removed.
RECURSIVE RemoveFirst(_, _)
RemoveFirst(s, pat) ==
  IF Len(s) < Len(pat) THEN s
  ELSE IF SubSeq(s, 1, Len(pat)) = pat THEN SubSeq(s, Len(pat) + 1, Len(s))
  ELSE <<Head(s)>> \o RemoveFirst(Tail(s), pat)

Mapped == <<":", ":", "f", "f", "f", "f", ":">>

\* socket.remoteAddress?.replace('::ffff:', '') || ''
ClientIP(req) == IF req.addr.set THEN RemoveFirst(req.addr.val, Mapped) ELSE <<>>

\* What the handler did: the bytes written to the socket, socket.destroy(),
\* wss.handleUpgrade (which creates the tunnel of the connection).
Outcome(w, d, u) == [written |-> w, destroyed |-> d, upgraded |-> u]

\* A variant of the handler that hands every request that passed the IP and
\* token checks to handleUpgrade, whatever its path.
UpgradeAnyPath(req) ==
  IF ~isIPInCIDR(ClientIP(req), allowedCIDRs)
  THEN Outcome("HTTP/1.1 403 Forbidden\r\n\r\n", TRUE, FALSE)
  ELSE IF env.TOKEN # "" /\ (~req.protocol.set \/ req.protocol.val # env.TOKEN)
  THEN Outcome("HTTP/1.1 401 Unauthorized\r\n\r\n", TRUE, FALSE)
  ELSE Outcome("", FALSE, TRUE)

\* A variant of the handler that answers a path mismatch with 404.
UpgradeNotFound(req) ==
  IF ~isIPInCIDR(ClientIP(req), allowedCIDRs)
  THEN Outcome("HTTP/1.1 403 Forbidden\r\n\r\n", TRUE, FALSE)
  ELSE IF env.TOKEN # "" /\ (~req.protocol.set \/ req.protocol.val # env.TOKEN)
  THEN Outcome("HTTP/1.1 401 Unauthorized\r\n\r\n", TRUE, FALSE)
  ELSE IF req.url = env.WS_PATH
  THEN Outcome("", FALSE, TRUE)
  ELSE Outcome("HTTP/1.1 404 Not Found\r\n\r\n", TRUE, FALSE)

\* server.on('upgrade', (req, socket, head) => ...)
Upgrade(req) ==
  IF ~isIPInCIDR(ClientIP(req), allowedCIDRs)
  THEN Outcome("HTTP/1.1 403 Forbidden\r\n\r\n", TRUE, FALSE)
  ELSE IF env.TOKEN # "" /\ (~req.protocol.set \/ req.protocol.val # env.TOKEN)
  THEN Outcome("HTTP/1.1 401 Unauthorized\r\n\r\n", TRUE, FALSE)
  ELSE IF req.url = env.WS_PATH
  THEN Outcome("", FALSE, TRUE)
  ELSE Outcome("", TRUE, FALSE)

----------------------------------------------------------------------------
\* Frames.

Frame(b, t, s) == [bin |-> b, tag |-> t, body |-> s]

\* `TAG:${body}` as ws.send(string) sends it, and Buffer frames.
TextFrame(t, s) == Frame(FALSE, t, s)
BinFrame(t, s) == Frame(TRUE, t, s)

\* Map.prototype.set / delete on a function with a finite domain.
MapSet(m, k, v) == [x \in DOMAIN m \cup {k} |-> IF x = k THEN v ELSE m[x]]
MapDelete(m, k) == [x \in DOMAIN m \ {k} |-> m[x]]
EmptyMap == [x \in {} |-> 0]

Has(m, k) == k \in DOMAIN m

\* The tables and sockets of a tunnel as wss.on('connection') creates them,
\* and a second WebSocket that was never opened.
FreshTun ==
  [sess |-> <<>>, conns |-> EmptyMap, udp |-> <<>>, udpConns |-> EmptyMap,
   udpTargets |-> EmptyMap]
NoPeer == [wsState |-> "closed", tun |-> FreshTun, out |-> <<>>]

----------------------------------------------------------------------------
\* The upgrade requests of the model.

Str(n) == <<Digits[n + 1]>>
Dotted(a, b, c, d) ==
  Str(a) \o <<".">> \o Str(b) \o <<".">> \o Str(c) \o <<".">> \o Str(d)

Peer10 == <<"1", "0">> \o <<".">> \o Str(1) \o <<".">> \o Str(2) \o <<".">> \o Str(3)
Peer9 == Dotted(9, 1, 2, 3)
V4Mapped(ip) == Mapped \o ip
Loopback6 == <<":", ":", "1">>

Net10 == <<"1", "0">> \o <<".", "0", ".", "0", ".", "0", "/", "8">>
Host9 == Peer9 \o <<"/", "3", "2">>

Header(v) == [set |-> TRUE, val |-> v]
NoHeader == [set |-> FALSE, val |-> ""]
Request(a, p, u) == [addr |-> a, protocol |-> p, url |-> u]

DefaultEnv == [TOKEN |-> "", WS_PATH |-> "/ws", CIDRS |-> AnyV4 \o <<",">> \o AnyV6]

Envs ==
  [TOKEN : {"", "secret"},
   WS_PATH : {"/ws", "/t"},
   CIDRS : {AnyV4 \o <<",">> \o AnyV6, Net10, Net10 \o <<",">> \o Host9, AnyV6}]

Requests ==
  {Request(a, p, u) :
     a \in {Header(Peer10), Header(V4Mapped(Peer10)), Header(Peer9), Header(Loopback6),
            [set |-> FALSE, val |-> <<>>]},
     p \in {NoHeader, Header(""), Header("secret"), Header("wrong")},
     u \in {"/ws", "/t", "/ws/"}}

\* The process after start-up, before any upgrade request.
InitAdm ==
  /\ env \in Envs
  /\ adm = [req |-> Request([set |-> FALSE, val |-> <<>>], NoHeader, ""),
            res |-> Outcome("", FALSE, FALSE)]
  /\ wsState = "closed"
  /\ sess = <<>>
  /\ conns = EmptyMap
  /\ udp = <<>>
  /\ udpConns = EmptyMap
  /\ udpTargets = EmptyMap
  /\ out = <<>>
  /\ branch = "run"
  /\ peer = NoPeer

OnUpgrade(req) ==
  /\ adm' = [req |-> req, res |-> Upgrade(req)]
  /\ UNCHANGED <<env, wsState, sess, conns, udp, udpConns, udpTargets, out, branch, peer>>

NextAdm == \E req \in Requests : OnUpgrade(req)

SpecAdm == InitAdm /\ [][NextAdm]_vars

----------------------------------------------------------------------------
\* The allow-list test on its own: isIPInCIDR applied to addresses and lists
\* given by their numbers and written out as the strings the code parses.

\* String(n) for a natural number
RECURSIVE Decimal(_)
Decimal(n) == IF n < 10 THEN Str(n) ELSE Decimal(n \div 10) \o Str(n % 10)

\* "a.b.c.d" and "a.b.c.d/n"
FormatIp(o) ==
  Decimal(o[1]) \o <<".">> \o Decimal(o[2]) \o <<".">> \o Decimal(o[3]) \o <<".">> \o Decimal(o[4])
FormatCidr(e) == FormatIp(e.oct) \o <<"/">> \o Decimal(e.n)

RECURSIVE FormatList(_)
FormatList(l) ==
  IF Len(l) = 1 THEN FormatCidr(l[1]) ELSE FormatCidr(l[1]) \o <<",">> \o FormatList(Tail(l))

Cidr(a, b, c, d, n) == [oct |-> <<a, b, c, d>>, n |-> n]

CidrEntries ==
  {Cidr(10, 0, 0, 0, n) : n \in {0, 1, 7, 8, 9, 16, 31, 32}}
    \cup {Cidr(192, 168, 1, 0, 24), Cidr(10, 1, 2, 3, 32), Cidr(128, 0, 0, 0, 1)}

CidrLists ==
  {<<e>> : e \in CidrEntries} \cup {<<Cidr(192, 168, 1, 0, 24), e>> : e \in CidrEntries}

PeerOctets ==
  {<<10, 1, 2, 3>>, <<10, 0, 0, 0>>, <<11, 0, 0, 0>>, <<9, 1, 2, 3>>, <<10, 128, 0, 1>>,
   <<192, 168, 1, 77>>, <<192, 168, 2, 1>>, <<200, 1, 2, 3>>, <<127, 0, 0, 1>>}

InitCidr ==
  /\ \E l \in CidrLists :
       /\ env = [DefaultEnv EXCEPT !.CIDRS = FormatList(l)]
       /\ adm = [list |-> l, ip |-> <<>>, allowed |-> FALSE]
  /\ wsState = "closed"
  /\ sess = <<>>
  /\ conns = EmptyMap
  /\ udp = <<>>
  /\ udpConns = EmptyMap
  /\ udpTargets = EmptyMap
  /\ out = <<>>
  /\ branch = "run"
  /\ peer = NoPeer

\* isIPInCIDR(clientIP, allowedCIDRs), as the upgrade handler calls it
OnCheck(o) ==
  /\ adm' = [adm EXCEPT !.ip = o, !.allowed = isIPInCIDR(FormatIp(o), allowedCIDRs)]
  /\ UNCHANGED <<env, wsState, sess, conns, udp, udpConns, udpTargets, out, branch, peer>>

NextCidr == \E o \in PeerOctets : OnCheck(o)

SpecCidr == InitCidr /\ [][NextCidr]_vars

----------------------------------------------------------------------------
\* The tunnel of one WebSocket.  A handler is an operator from the state it
\* runs in to its result: the tables and sockets it leaves, the frames it
\* passed to the WebSocket, and the branch it took ("run", "ack" for the CLAIM
\* reply, "senderr" for a send callback given an error, "throws" for an
\* exception that leaves the handler, or why it dropped the frame: "ignored",
\* "fields", "miss").

\* wss.on('connection'): the state of a tunnel right after its construction.
Init ==
  /\ wsState = "open"
  /\ sess = <<>>
  /\ conns = EmptyMap
  /\ udp = <<>>
  /\ udpConns = EmptyMap
  /\ udpTargets = EmptyMap
  /\ out = <<>>
  /\ branch = "run"
  /\ peer = NoPeer
  /\ env = DefaultEnv
  /\ adm = [req |-> Request(Header(V4Mapped(Peer10)), NoHeader, "/ws"),
            res |-> Outcome("", FALSE, TRUE)]

Tun ==
  [sess |-> sess, conns |-> conns, udp |-> udp, udpConns |-> udpConns,
   udpTargets |-> udpTargets]

Result(t, frames, b) == [tun |-> t, sent |-> frames, branch |-> b]

\* An entry of sent and out: the frame, and the socket whose listener sent it
\* (NoSrc for a reply of the dispatcher itself).
NoSrc == [k |-> "ws", i |-> 0]
TcpSrc(s) == [k |-> "tcp", i |-> s]
UdpSrc(u) == [k |-> "udp", i |-> u]

\* A variant of ws.send that sends in every readyState.
WsSendAlways(frame, src) == <<[frame |-> frame, src |-> src]>>

\* ws.send(frame): the ws library sends only in readyState OPEN; in CLOSING
\* and CLOSED it reports the error to the callback, which no call here passes.
WsSend(frame, src) ==
  IF wsState = "open" THEN <<[frame |-> frame, src |-> src]>> ELSE <<>>

\* if (ws.readyState === 1) ws.send(frame)
GuardedSend(frame, src) ==
  IF wsState = "open" THEN WsSend(frame, src) ELSE <<>>

\* A variant of Drop that answers a dropped frame with an ERROR frame.
DropEcho(b) == Result(Tun, WsSend(TextFrame("ERROR", <<>>), NoSrc), b)

\* A handler branch that touches nothing.
Drop(b) == Result(Tun, <<>>, b)

\* conn.destroy() on each socket of the set S (idempotent)
Destroyed(S) ==
  [s \in DOMAIN sess |-> IF s \in S THEN [sess[s] EXCEPT !.st = "destroyed"] ELSE sess[s]]

\* udpConn.close() on each socket of the set U
UdpClosed(U) ==
  [u \in DOMAIN udp |-> IF u \in U THEN [udp[u] EXCEPT !.st = "closed"] ELSE udp[u]]

\* net.connect and udpConn.send throw ERR_SOCKET_BAD_PORT on a port that is
\* NaN or above 65535, udpConn.send on port 0 too.
BadPort(port, allowZero) ==
  port.nan \/ port.val > 65535 \/ (port.val = 0 /\ ~allowZero)

\* A variant of handleTCPConnect that puts the socket into the table when
\* the dial starts.
handleTCPConnectEager(connID, targetAddr, firstFrameData) ==
  Result([Tun EXCEPT !.sess = Append(sess, [cid |-> connID, first |-> firstFrameData,
                                            st |-> "dialing", wr |-> <<>>]),
                     !.conns = MapSet(conns, connID, Len(sess) + 1)],
         <<>>, "run")

\* net.connect(port, host) and the registration of the four listeners: the
\* socket starts dialing; conns is not touched before 'connect'.
handleTCPConnect(connID, targetAddr, firstFrameData) ==
  IF BadPort(ParseTarget(targetAddr).port, TRUE)
  THEN Result(Tun, <<>>, "throws")
  ELSE Result([Tun EXCEPT !.sess = Append(sess, [cid |-> connID, first |-> firstFrameData,
                                                 st |-> "dialing", wr |-> <<>>])],
              <<>>, "run")

\* dgram.createSocket, both maps set, UDP_CONNECTED sent (unguarded).
handleUDPConnect(connID, targetAddr) ==
  Result([Tun EXCEPT !.udp = Append(udp, [cid |-> connID, st |-> "open", sent |-> 0, pend |-> 0]),
                     !.udpConns = MapSet(udpConns, connID, Len(udp) + 1),
                     !.udpTargets = MapSet(udpTargets, connID, ParseTarget(targetAddr))],
         WsSend(TextFrame("UDP_CONNECTED", connID), UdpSrc(Len(udp) + 1)), "run")

\* if (udpConn && targetAddr) udpConn.send(payload, targetAddr.port, targetAddr.host, ...)
udpData(connID, payload) ==
  IF Has(udpConns, connID) /\ Has(udpTargets, connID)
  THEN IF BadPort(udpTargets[connID].port, FALSE) THEN Result(Tun, <<>>, "throws") ELSE
       Result([Tun EXCEPT !.udp[udpConns[connID]].sent = @ + 1,
                          !.udp[udpConns[connID]].pend = @ + 1],
              <<>>, "run")
  ELSE Drop("miss")

\* if (conn && !conn.destroyed) conn.write(payload)
tcpData(connID, payload) ==
  IF Has(conns, connID) /\ sess[conns[connID]].st # "destroyed"
  THEN Result([Tun EXCEPT !.sess[conns[connID]].wr = Append(@, payload)], <<>>, "run")
  ELSE Drop("miss")

handleBinaryMessage(data) ==
  IF data.tag = "UDP_DATA" THEN
    LET content == data.body
        pipeIndex == IndexOf(content, "|")
    IN IF pipeIndex > 0
       THEN udpData(SliceTo(content, pipeIndex), SliceFrom(content, pipeIndex + 1))
       ELSE Drop("fields")
  ELSE IF data.tag = "DATA" THEN
    LET content == data.body
        pipeIndex == IndexOf(content, "|")
    IN IF pipeIndex > 0
       THEN tcpData(SliceTo(content, pipeIndex), SliceFrom(content, pipeIndex + 1))
       ELSE Drop("fields")
  ELSE Drop("ignored")

\* The connID of a CLOSE and of a UDP_CLOSE frame: data.slice(6), data.slice(10)
closeConnID(body) == body

\* The UDP_CLOSE branch
udpClose(connID) ==
  IF Has(udpConns, connID)
  THEN Result([Tun EXCEPT !.udp = UdpClosed({udpConns[connID]}),
                          !.udpConns = MapDelete(udpConns, connID),
                          !.udpTargets = MapDelete(udpTargets, connID)],
              <<>>, "run")
  ELSE Drop("miss")

\* The CLOSE branch
tcpClose(connID) ==
  IF Has(conns, connID)
  THEN Result([Tun EXCEPT !.sess = Destroyed({conns[connID]}),
                          !.conns = MapDelete(conns, connID)],
              <<>>, "run")
  ELSE Drop("miss")

\* A variant of claimAck that acknowledges the first field only.
claimAckFirst(parts) == TextFrame("CLAIM_ACK", parts[1])

\* `CLAIM_ACK:${parts[0]}|${parts[1]}`
claimAck(parts) == TextFrame("CLAIM_ACK", parts[1] \o <<"|">> \o parts[2])

\* The TCP branch: parts.length >= 2, parts[2] || ''
tcpOpen(parts) ==
  IF Len(parts) >= 2
  THEN handleTCPConnect(parts[1], parts[2], IF Len(parts) >= 3 THEN parts[3] ELSE <<>>)
  ELSE Drop("fields")

\* The UDP_CONNECT branch: parts.length === 2
udpOpen(parts) ==
  IF Len(parts) = 2 THEN handleUDPConnect(parts[1], parts[2]) ELSE Drop("fields")

handleTextMessage(data) ==
  IF data.tag = "UDP_CONNECT" THEN udpOpen(Split(data.body, "|"))
  ELSE IF data.tag = "UDP_CLOSE" THEN udpClose(closeConnID(data.body))
  ELSE IF data.tag = "CLAIM" THEN
    LET parts == Split(data.body, "|")
    IN IF Len(parts) = 2
       THEN Result(Tun, WsSend(claimAck(parts), NoSrc), "ack")
       ELSE Drop("fields")
  ELSE IF data.tag = "TCP" THEN tcpOpen(Split(data.body, "|"))
  ELSE IF data.tag = "DATA" THEN
    LET parts == Split(data.body, "|")
    IN IF Len(parts) = 2 THEN tcpData(parts[1], parts[2]) ELSE Drop("fields")
  ELSE IF data.tag = "CLOSE" THEN tcpClose(closeConnID(data.body))
  ELSE Drop("ignored")

\* ws.on('message', (data, isBinary) => ...)
onMessage(data) ==
  IF data.bin THEN handleBinaryMessage(data) ELSE handleTextMessage(data)

\* The listeners handleTCPConnect registers on socket s (connID is s's cid).

\* A variant of the 'connect' listener that does not write the initial bytes.
onConnectBare(s) ==
  Result([Tun EXCEPT !.conns = MapSet(conns, sess[s].cid, s),
                     !.sess[s].st = "open"],
         GuardedSend(TextFrame("CONNECTED", sess[s].cid), TcpSrc(s)), "run")

\* conn.on('connect')
onConnect(s) ==
  Result([Tun EXCEPT !.conns = MapSet(conns, sess[s].cid, s),
                     !.sess[s].st = "open",
                     !.sess[s].wr = IF sess[s].first # <<>>
                                    THEN Append(@, sess[s].first) ELSE @],
         GuardedSend(TextFrame("CONNECTED", sess[s].cid), TcpSrc(s)), "run")

\* The n-th chunk the remote side delivers.  Once the WebSocket has left OPEN
\* no chunk is passed on, so a socket's chunks are numbered by the DATA frames
\* it has sent.
RemoteChunk(n) == <<Digits[n + 1]>>
ChunksRead(s) ==
  Len(SelectSeq(out, LAMBDA e : e.src = TcpSrc(s) /\ e.frame.tag = "DATA"))

\* conn.on('data')
onData(s) ==
  Result(Tun,
         GuardedSend(BinFrame("DATA", sess[s].cid \o <<"|">> \o RemoteChunk(ChunksRead(s) + 1)),
                     TcpSrc(s)),
         "run")

\* conn.on('end'): the remote side finished; the socket is not destroyed yet.
onEnd(s) ==
  Result([Tun EXCEPT !.sess[s].st = "ended",
                     !.conns = MapDelete(conns, sess[s].cid)],
         GuardedSend(TextFrame("CLOSE", sess[s].cid), TcpSrc(s)), "run")

\* conn.on('error'): a dial failure, a failure of the established stream, or
\* a failed pending write after 'end'; the socket is destroyed after it.
onError(s) ==
  Result([Tun EXCEPT !.sess = Destroyed({s}),
                     !.conns = MapDelete(conns, sess[s].cid)],
         GuardedSend(TextFrame("CLOSE", sess[s].cid), TcpSrc(s)), "run")

\* The callback of udpConn.send, with the error of the send or without one:
\* it logs, and nothing else.  (A send that is given a callback reports its
\* failure to the callback and not as an 'error' event of the socket.)
onUdpSent(u, err) ==
  Result([Tun EXCEPT !.udp[u].pend = @ - 1], <<>>, IF err THEN "senderr" ELSE "run")

\* udpSocket.on('message')
onUdpMessage(u) ==
  Result(Tun,
         GuardedSend(BinFrame("UDP_DATA", udp[u].cid \o <<"|", "r", "|", "m">>), UdpSrc(u)),
         "run")

\* A variant of the 'error' listener that also closes the flow.
onUdpErrorCloses(u) ==
  Result([Tun EXCEPT !.udp = UdpClosed({u}),
                     !.udpConns = MapDelete(udpConns, udp[u].cid),
                     !.udpTargets = MapDelete(udpTargets, udp[u].cid)],
         WsSend(TextFrame("UDP_ERROR", udp[u].cid \o <<"|", "e">>), UdpSrc(u)), "run")

\* udpSocket.on('error'): ws.send unguarded
onUdpError(u) ==
  Result(Tun, WsSend(TextFrame("UDP_ERROR", udp[u].cid \o <<"|", "e">>), UdpSrc(u)), "run")

Range(m) == {m[k] : k \in DOMAIN m}

\* cleanup(conns, udpConns) run on the tables and sockets tn.  conn.destroy()
\* does nothing on a destroyed socket; udpConn.close() throws on a closed
\* one, which leaves the second loop and the handler.
cleanupOf(tn) ==
  LET tcpDone ==
        [tn EXCEPT !.sess = [s \in DOMAIN tn.sess |->
                               IF s \in Range(tn.conns)
                               THEN [tn.sess[s] EXCEPT !.st = "destroyed"] ELSE tn.sess[s]],
                   !.conns = EmptyMap]
  IN IF \E u \in Range(tn.udpConns) : tn.udp[u].st = "closed"
     THEN Result(tcpDone, <<>>, "throws")
     ELSE Result([tcpDone EXCEPT !.udp = [u \in DOMAIN tn.udp |->
                                           IF u \in Range(tn.udpConns)
                                           THEN [tn.udp[u] EXCEPT !.st = "closed"]
                                           ELSE tn.udp[u]],
                                 !.udpConns = EmptyMap],
                 <<>>, "run")

cleanup == cleanupOf(Tun)

----------------------------------------------------------------------------
\* The steps of a tunnel: a handler runs to its end and its result becomes
\* the state.  out keeps the frames of the TCP listeners.

FromTcp(e) == e.src.k = "tcp"

Apply(r) ==
  /\ sess' = r.tun.sess
  /\ conns' = r.tun.conns
  /\ udp' = r.tun.udp
  /\ udpConns' = r.tun.udpConns
  /\ udpTargets' = r.tun.udpTargets
  /\ out' = out \o SelectSeq(r.sent, FromTcp)
  /\ Len(out') <= MaxOut
  /\ branch' = r.branch
  /\ UNCHANGED <<env, adm, peer>>

OnConnect(s) ==
  /\ sess[s].st = "dialing"
  /\ Apply(onConnect(s))
  /\ UNCHANGED wsState

OnData(s) ==
  /\ sess[s].st = "open"
  /\ Apply(onData(s))
  /\ UNCHANGED wsState

OnEnd(s) ==
  /\ sess[s].st = "open"
  /\ Apply(onEnd(s))
  /\ UNCHANGED wsState

OnError(s) ==
  /\ sess[s].st \in {"dialing", "open", "ended"}
  /\ Apply(onError(s))
  /\ UNCHANGED wsState

\* After 'end' the socket (allowHalfOpen false) ends its own side and is
\* destroyed; no listener of the program runs.
SocketClosed(s) ==
  /\ sess[s].st = "ended"
  /\ sess' = Destroyed({s})
  /\ branch' = "run"
  /\ UNCHANGED <<wsState, conns, udp, udpConns, udpTargets, out, env, adm, peer>>

\* A socket receives only once bound, which its first send does.
OnUdpMessage(u) ==
  /\ udp[u].st = "open"
  /\ udp[u].sent > 0
  /\ Apply(onUdpMessage(u))
  /\ UNCHANGED wsState

OnUdpSent(u, err) ==
  /\ udp[u].pend > 0
  /\ Apply(onUdpSent(u, err))
  /\ UNCHANGED wsState

OnUdpError(u) ==
  /\ udp[u].st = "open"
  /\ Apply(onUdpError(u))
  /\ UNCHANGED wsState

\* The WebSocket leaves OPEN (close frame received, or its socket failed).
WsClosing ==
  /\ wsState = "open"
  /\ wsState' = "closing"
  /\ branch' = "run"
  /\ UNCHANGED <<sess, conns, udp, udpConns, udpTargets, out, env, adm, peer>>

\* ws.on('close')
OnWsClose ==
  /\ wsState = "closing"
  /\ wsState' = "closed"
  /\ Apply(cleanup)

----------------------------------------------------------------------------
\* The frames a client sends: every tag the handlers know and one they do
\* not, as text and as binary, each with every number of fields up to one
\* more than the tag takes.  A frame is Join of its fields, and the handlers
\* split it again.  Every target names a port: net.connect and udpConn.send
\* throw on a port that is not a number, which ends the process.

Cids == {<<>>, <<"c">>}
Addrs == {<<"h", ":", "1">>}
Pays == {<<>>, <<"x">>}
Extras == {<<"x">>}

Tags == {"TCP", "DATA", "CLOSE", "UDP_CONNECT", "UDP_DATA", "UDP_CLOSE", "CLAIM", "PING"}

FieldCount(tag) ==
  CASE tag = "TCP" -> 3
    [] tag \in {"DATA", "UDP_CONNECT", "UDP_DATA", "CLAIM"} -> 2
    [] OTHER -> 1

\* The values of the n-th field of a frame of the tag.
FieldVals(tag, n) ==
  IF n = 1 THEN Cids
  ELSE IF n > FieldCount(tag) THEN Extras
  ELSE IF n = 2 /\ tag \in {"TCP", "UDP_CONNECT"} THEN Addrs
  ELSE Pays

RECURSIVE Join(_)
Join(fs) ==
  IF Len(fs) = 1 THEN fs[1] ELSE fs[1] \o <<"|">> \o Join(Tail(fs))

FieldLists(tag) ==
  UNION {{fs \in [1..k -> Cids \cup Addrs \cup Pays] :
            \A n \in 1..k : fs[n] \in FieldVals(tag, n)} : k \in 1..(FieldCount(tag) + 1)}

ClientFrames ==
  UNION {{Frame(b, tag, Join(fs)) : b \in BOOLEAN, fs \in FieldLists(tag)} : tag \in Tags}

\* What the bounds count: the sockets created, and the payloads written to
\* streams and datagrams sent.
RECURSIVE SumWr(_, _)
SumWr(ss, s) == IF s = 0 THEN 0 ELSE Len(ss[s].wr) + SumWr(ss, s - 1)
RECURSIVE SumSent(_, _)
SumSent(us, u) == IF u = 0 THEN 0 ELSE us[u].sent + SumSent(us, u - 1)

SocketsOf(tn) == Len(tn.sess) + Len(tn.udp)
IoOf(tn) == SumWr(tn.sess, Len(tn.sess)) + SumSent(tn.udp, Len(tn.udp))

Sockets == SocketsOf(Tun)
Io == IoOf(Tun)

\* The handler's result stays within the bounds: at most io payloads.
WithinIo(r, io) ==
  /\ SocketsOf(r.tun) <= MaxSock
  /\ IoOf(r.tun) <= (IF Io > io THEN Io ELSE io)

Within(r) == WithinIo(r, MaxIo)

\* What is left of a tunnel when the process has exited.
Down == [wsState |-> "down", tun |-> FreshTun, out |-> <<>>]

\* An exception that leaves a listener is uncaught (the program sets no
\* 'uncaughtException' handler): the process exits, and with it every
\* WebSocket, table and socket.
Exit ==
  /\ wsState' = "down"
  /\ sess' = <<>>
  /\ conns' = EmptyMap
  /\ udp' = <<>>
  /\ udpConns' = EmptyMap
  /\ udpTargets' = EmptyMap
  /\ out' = <<>>
  /\ branch' = "throws"
  /\ peer' = IF peer = NoPeer THEN NoPeer ELSE Down
  /\ UNCHANGED <<env, adm>>

\* ws.on('message') of the WebSocket runs its handler on the frame; a frame
\* is received as long as handling it stays within the bounds.
ReceiveIo(f, io) ==
  /\ wsState = "open"
  /\ LET r == onMessage(f)
     IN IF r.branch = "throws" THEN Exit
        ELSE /\ WithinIo(r, io)
             /\ SocketsOf(r.tun) + SocketsOf(peer.tun) <= MaxSock
             /\ Apply(r)
             /\ UNCHANGED wsState

Receive(f) == ReceiveIo(f, MaxIo)

Recv == \E f \in ClientFrames : Receive(f)
Connect == \E s \in DOMAIN sess : OnConnect(s)
Data == \E s \in DOMAIN sess : OnData(s)
End == \E s \in DOMAIN sess : OnEnd(s)
Error == \E s \in DOMAIN sess : OnError(s)
Closed == \E s \in DOMAIN sess : SocketClosed(s)
UdpMessage == \E u \in DOMAIN udp : OnUdpMessage(u)
UdpError == \E u \in DOMAIN udp : OnUdpError(u)
UdpSent == \E u \in DOMAIN udp, err \in BOOLEAN : OnUdpSent(u, err)

Next ==
  \/ Recv
  \/ Connect
  \/ Data
  \/ End
  \/ Error
  \/ Closed
  \/ UdpMessage
  \/ UdpError
  \/ UdpSent
  \/ WsClosing
  \/ OnWsClose

Spec == Init /\ [][Next]_vars


----------------------------------------------------------------------------
\* Two WebSockets of one process.  The listeners registered by
\* wss.on('connection') close over the ws, conns, udpConns and udpTargets of
\* their own connection: a step runs a listener of one WebSocket on that
\* WebSocket's tables, and Turn passes to the listeners of the other one.

Focus == [wsState |-> wsState, tun |-> Tun, out |-> out]

Turn ==
  /\ peer # NoPeer
  /\ peer' = Focus
  /\ wsState' = peer.wsState
  /\ sess' = peer.tun.sess
  /\ conns' = peer.tun.conns
  /\ udp' = peer.tun.udp
  /\ udpConns' = peer.tun.udpConns
  /\ udpTargets' = peer.tun.udpTargets
  /\ out' = peer.out
  /\ UNCHANGED <<branch, env, adm>>

\* The frames of the two clients: both use the CID c; one target has no port.
NoPort == <<"h">>
TwoFrames ==
  {TextFrame("TCP", <<"c", "|">> \o a) : a \in Addrs \cup {NoPort}}
    \cup {TextFrame("UDP_CONNECT", <<"c", "|">> \o a) : a \in Addrs}
    \cup {TextFrame("CLOSE", <<"c">>), TextFrame("UDP_CLOSE", <<"c">>),
          BinFrame("DATA", <<"c", "|", "x">>), BinFrame("UDP_DATA", <<"c", "|", "x">>)}

InitTwo ==
  /\ wsState = "open"
  /\ sess = <<>>
  /\ conns = EmptyMap
  /\ udp = <<>>
  /\ udpConns = EmptyMap
  /\ udpTargets = EmptyMap
  /\ out = <<>>
  /\ branch = "run"
  /\ env = DefaultEnv
  /\ adm = [req |-> Request(Header(V4Mapped(Peer10)), NoHeader, "/ws"),
            res |-> Outcome("", FALSE, TRUE)]
  /\ peer = [wsState |-> "open", tun |-> FreshTun, out |-> <<>>]

RecvTwo == \E f \in TwoFrames : Receive(f)

NextTwo ==
  \/ RecvTwo
  \/ Connect
  \/ Data
  \/ End
  \/ Error
  \/ Closed
  \/ UdpMessage
  \/ UdpError
  \/ UdpSent
  \/ WsClosing
  \/ OnWsClose
  \/ Turn

SpecTwo == InitTwo /\ [][NextTwo]_vars

----------------------------------------------------------------------------
\* The TCP streams of one tunnel alone, with room for a write after the
\* initial bytes: open frames with and without initial bytes, and DATA frames
\* (text and binary) whose payload differs from them.
FirstFrames ==
  {TextFrame("TCP", <<"c", "|", "h", ":", "1">>),
   TextFrame("TCP", <<"c", "|", "h", ":", "1", "|", "x">>),
   TextFrame("DATA", <<"c", "|", "y">>),
   BinFrame("DATA", <<"c", "|", "y">>),
   TextFrame("CLOSE", <<"c">>)}

RecvFirst == \E f \in FirstFrames : ReceiveIo(f, MaxWrites)

NextFirst ==
  \/ RecvFirst
  \/ Connect
  \/ Data
  \/ End
  \/ Error
  \/ Closed
  \/ WsClosing
  \/ OnWsClose

SpecFirst == Init /\ [][NextFirst]_vars

\* The same steps where what the runtime does on its own is not postponed
\* for ever: the 'close' handler of a WebSocket that left OPEN runs, a dial
\* ends in 'connect' or in 'error', and a socket whose remote side finished
\* is destroyed.  What the remote side does (data, end, reset of an
\* established stream, datagrams) is under no such condition.
DialOutcome ==
  \E s \in DOMAIN sess : sess[s].st = "dialing" /\ (OnConnect(s) \/ OnError(s))

FairSpec ==
  /\ Init
  /\ [][Next]_vars
  /\ WF_vars(OnWsClose)
  /\ WF_vars(DialOutcome)
  /\ WF_vars(Closed)

----------------------------------------------------------------------------
\* Properties of the tunnel.

Live(s) == sess[s].st \in {"dialing", "open"}

AllReleased ==
  /\ \A s \in DOMAIN sess : sess[s].st = "destroyed"
  /\ \A u \in DOMAIN udp : udp[u].st = "closed"

\* C1: once the 'close' event of the WebSocket has been handled, every TCP
\* stream and every UDP socket the tunnel created is eventually destroyed or
\* closed, those still dialing at the close and those of a CID opened more
\* than once included.
C1_CloseReleasesAll == (wsState = "closed") ~> AllReleased

\* C2: in every reachable state, no two live TCP sessions (dialing or
\* established, not destroyed) of the tunnel were opened under the same CID.
C2_OneLivePerCid ==
  \A s, t \in DOMAIN sess :
    (s # t /\ Live(s) /\ Live(t)) => sess[s].cid # sess[t].cid

\* The CID of a frame the server emits: the field before the first pipe.
EmittedCid(e) == Split(e.frame.body, "|")[1]

IsEmitted(e, tag, cid) == e.frame.tag = tag /\ EmittedCid(e) = cid

\* C3: every binary DATA:cid the server emits is preceded by a CONNECTED:cid
\* it emitted, with no CLOSE:cid emitted between the two.
C3_DataAfterConnected ==
  \A i \in DOMAIN out :
    (out[i].frame.tag = "DATA" /\ out[i].frame.bin) =>
      \E j \in 1..(i - 1) :
        /\ IsEmitted(out[j], "CONNECTED", EmittedCid(out[i]))
        /\ \A k \in (j + 1)..(i - 1) : ~IsEmitted(out[k], "CLOSE", EmittedCid(out[i]))

\* C4: the CLOSE:cid a session emits is the last frame it emits: no DATA and
\* no second CLOSE of the same session follows it.
C4_CloseIsLast ==
  \A i, j \in DOMAIN out :
    (i < j /\ out[i].src = out[j].src /\ out[i].frame.tag = "CLOSE") =>
      out[j].frame.tag \notin {"DATA", "CLOSE"}

\* C5: a CLOSE:cid of the client for a connection it opened, dialing or
\* established, destroys the outbound stream, leaves no entry for cid in the
\* TCP table and is not echoed.
C5_ClientCloseDestroys ==
  wsState = "open" =>
    \A s \in DOMAIN sess :
      Live(s) =>
        LET r == onMessage(TextFrame("CLOSE", sess[s].cid))
        IN /\ \A t \in DOMAIN sess :
                (Live(t) /\ sess[t].cid = sess[s].cid) => r.tun.sess[t].st = "destroyed"
           /\ ~Has(r.tun.conns, sess[s].cid)
           /\ r.sent = <<>>

\* The tags a client may send, and the fields of a frame.
KnownTags == {"TCP", "DATA", "CLOSE", "UDP_CONNECT", "UDP_DATA", "UDP_CLOSE", "CLAIM"}
Fields(f) == Split(f.body, "|")
FrameCid(f) == Fields(f)[1]

\* The frame names a CID that the table of its tag does not hold.
UnknownCid(f) ==
  \/ f.tag \in {"DATA", "CLOSE"} /\ ~Has(conns, FrameCid(f))
  \/ f.tag \in {"UDP_DATA", "UDP_CLOSE"} /\ ~Has(udpConns, FrameCid(f))

\* The handler left the three tables and every socket as they were and
\* passed nothing to the WebSocket.
NoEffect(r) == r.tun = Tun /\ r.sent = <<>>

\* C6: a frame of an unknown tag, and a DATA, CLOSE, UDP_DATA or UDP_CLOSE
\* frame whose CID has no entry in the table of its tag, leaves the three
\* tables unchanged, writes to no stream or socket and emits no frame.
C6_UnknownDropped ==
  wsState = "open" =>
    \A f \in ClientFrames :
      (f.tag \notin KnownTags \/ UnknownCid(f)) => NoEffect(onMessage(f))

\* A frame of an unknown CID was dropped while each table held an entry.
C6_Witness ==
  /\ branch = "miss"
  /\ conns # EmptyMap
  /\ udpConns # EmptyMap
  /\ udpTargets # EmptyMap

\* The numbers of fields a frame of the tag may have.
FieldCounts(tag) ==
  CASE tag = "TCP" -> {2, 3}
    [] tag \in {"DATA", "UDP_CONNECT", "UDP_DATA", "CLAIM"} -> {2}
    [] OTHER -> {1}

\* C7: a frame whose field count is wrong for its tag or whose CID is empty
\* is dropped: no dial, no UDP socket, no table entry, no frame emitted.
C7_MalformedDropped ==
  wsState = "open" =>
    \A f \in ClientFrames :
      (Len(Fields(f)) \notin FieldCounts(f.tag) \/ FrameCid(f) = <<>>) =>
        NoEffect(onMessage(f))

\* C8: a CLAIM:a|b text frame (a and b free of '|', either may be empty) on
\* an open WebSocket yields exactly one CLAIM_ACK:a|b with the same two
\* fields, in every state (so N of them yield N acks), and leaves the three
\* tables and every socket unchanged.
C8_ClaimAcked ==
  wsState = "open" =>
    \A a \in Cids, b \in Pays :
      LET r == onMessage(TextFrame("CLAIM", a \o <<"|">> \o b))
      IN /\ r.sent = <<[frame |-> TextFrame("CLAIM_ACK", a \o <<"|">> \o b), src |-> NoSrc]>>
         /\ r.tun = Tun

\* A CLAIM was acknowledged while the tunnel held a TCP and a UDP connection.
C8_Witness ==
  /\ branch = "ack"
  /\ conns # EmptyMap
  /\ udpConns # EmptyMap

----------------------------------------------------------------------------
\* Properties of the admission of upgrade requests.

\* An upgrade request has been handled.
Handled == adm.req.url # ""

IpPasses == isIPInCIDR(ClientIP(adm.req), allowedCIDRs)
TokenPasses ==
  env.TOKEN = "" \/ (adm.req.protocol.set /\ adm.req.protocol.val = env.TOKEN)
PathPasses == adm.req.url = env.WS_PATH

Forbidden == "HTTP/1.1 403 Forbidden\r\n\r\n"
Unauthorized == "HTTP/1.1 401 Unauthorized\r\n\r\n"

\* C9: a tunnel is created for an upgrade request if and only if the peer
\* address passes the allow-list, the offered subprotocol equals the token
\* whenever the token is non-empty, and the request path equals WS_PATH.
C9_AdmittedIffAllPass ==
  Handled => (adm.res.upgraded <=> (IpPasses /\ TokenPasses /\ PathPasses))

\* A request that offered the configured token was admitted.
C9_Witness ==
  /\ Handled
  /\ env.TOKEN # ""
  /\ adm.res.upgraded

\* C10 as stated: 403 when the peer IP is denied, 401 when the token is
\* wrong, and for every request whose path differs from WS_PATH the
\* connection dropped with no response bytes and no handshake.
C10_Stated ==
  Handled =>
    /\ ~IpPasses => adm.res.written = Forbidden
    /\ ~TokenPasses => adm.res.written = Unauthorized
    /\ ~PathPasses => (adm.res.written = "" /\ adm.res.destroyed /\ ~adm.res.upgraded)

\* C10: the checks run in order and the first that fails decides the
\* response: 403 when the peer IP is denied; 401 when the IP passes and the
\* token is wrong; no bytes and the connection dropped when IP and token pass
\* and the path differs; a rejected request is never upgraded.
C10_FirstFailureDecides ==
  Handled =>
    /\ ~IpPasses => adm.res = Outcome(Forbidden, TRUE, FALSE)
    /\ (IpPasses /\ ~TokenPasses) => adm.res = Outcome(Unauthorized, TRUE, FALSE)
    /\ (IpPasses /\ TokenPasses /\ ~PathPasses) => adm.res = Outcome("", TRUE, FALSE)

\* A request from an allowed peer with a wrong token and a wrong path was
\* answered 401.
C10_Witness ==
  /\ Handled
  /\ IpPasses
  /\ ~TokenPasses
  /\ ~PathPasses
  /\ adm.res.written = Unauthorized

----------------------------------------------------------------------------
\* Properties of the allow-list test.

\* The first n bits of the addresses a and e agree, octet by octet.
PrefixBits(n, k) ==
  IF n >= 8 * k THEN 8 ELSE IF n <= 8 * (k - 1) THEN 0 ELSE n - 8 * (k - 1)
PrefixAgree(a, e, n) ==
  \A k \in 1..4 :
    a[k] \div Pow2(8 - PrefixBits(n, k)) = e[k] \div Pow2(8 - PrefixBits(n, k))

\* C11: with neither 0.0.0.0/0 nor ::/0 in the list, isIPInCIDR is true for
\* an IPv4 address exactly when the address agrees with some entry a.b.c.d/n
\* on the first n bits, for every n in 0..32 (a /0 entry matches every
\* address, a /32 entry one).
C11_PrefixMatch ==
  (adm.ip # <<>> /\ ~Includes(allowedCIDRs, AnyV4) /\ ~Includes(allowedCIDRs, AnyV6)) =>
    (adm.allowed <=>
       \E i \in DOMAIN adm.list : PrefixAgree(adm.ip, adm.list[i].oct, adm.list[i].n))

----------------------------------------------------------------------------
\* Properties of the UDP flows.

HasTag(frames, tag) == \E i \in DOMAIN frames : frames[i].frame.tag = tag

\* C12: when the send of the payload of a UDP_DATA:cid| frame fails, the
\* server emits UDP_ERROR:cid|message, and the flow stays open: its entries
\* in the UDP table and the sticky-target table are unchanged.
C12_SendErrorReported ==
  wsState = "open" =>
    \A u \in DOMAIN udp :
      udp[u].pend > 0 =>
        LET r == onUdpSent(u, TRUE)
        IN /\ HasTag(r.sent, "UDP_ERROR")
           /\ r.tun.udpConns = udpConns
           /\ r.tun.udpTargets = udpTargets
           /\ r.tun.udp[u].st = udp[u].st

\* The results of the listeners of the sockets, in the state as it is.
ListenerResults ==
  {onConnect(s) : s \in DOMAIN sess} \cup {onData(s) : s \in DOMAIN sess}
    \cup {onEnd(s) : s \in DOMAIN sess} \cup {onError(s) : s \in DOMAIN sess}
    \cup {onUdpMessage(u) : u \in DOMAIN udp} \cup {onUdpError(u) : u \in DOMAIN udp}

\* The handler left the flow of cid k in both tables, its socket open.
FlowKept(r, k) ==
  /\ Has(r.tun.udpConns, k) /\ r.tun.udpConns[k] = udpConns[k]
  /\ Has(udpTargets, k) => (Has(r.tun.udpTargets, k) /\ r.tun.udpTargets[k] = udpTargets[k])
  /\ r.tun.udp[udpConns[k]].st = udp[udpConns[k]].st

\* The handler left an entry for cid k in both tables and closed no socket
\* of the flow.
FlowOpen(r, k) ==
  /\ Has(r.tun.udpConns, k)
  /\ Has(r.tun.udpTargets, k)
  /\ r.tun.udp[udpConns[k]].st = "open"

\* The handler closed the flow of cid k: no entry in either table, socket closed.
FlowClosed(r, k) ==
  /\ ~Has(r.tun.udpConns, k)
  /\ ~Has(r.tun.udpTargets, k)
  /\ r.tun.udp[udpConns[k]].st = "closed"

\* The handler sent no datagram on a closed socket.
ClosedSilent(r) ==
  \A u \in DOMAIN udp : udp[u].st = "closed" => r.tun.udp[u].sent = udp[u].sent

\* C13: while the tunnel is up, the entry of a UDP flow is removed and its
\* socket closed by UDP_CLOSE:cid for its CID and by nothing else (no socket
\* listener, no send callback, no other frame); UDP_CLOSE:cid leaves no
\* entry for cid
\* in the UDP table and the sticky-target table and the socket closed; no
\* closed socket is in the table, and no frame sends a datagram on one.
C13_UdpClosedOnlyByClose ==
  wsState = "open" =>
    /\ \A k \in DOMAIN udpConns :
         /\ udp[udpConns[k]].st = "open"
         /\ FlowClosed(onMessage(TextFrame("UDP_CLOSE", k)), k)
         /\ \A r \in ListenerResults : FlowKept(r, k)
         /\ \A u \in DOMAIN udp : \A err \in BOOLEAN : FlowKept(onUdpSent(u, err), k)
    /\ \A f \in ClientFrames :
         LET r == onMessage(f)
         IN /\ ClosedSilent(r)
            /\ \A k \in DOMAIN udpConns : f # TextFrame("UDP_CLOSE", k) => FlowOpen(r, k)

\* A flow was closed by UDP_CLOSE, and a UDP_DATA for its CID was dropped
\* after it.
C13_Witness ==
  /\ wsState = "open"
  /\ branch = "miss"
  /\ \E u \in DOMAIN udp :
       /\ udp[u].st = "closed"
       /\ udp[u].sent > 0
       /\ ~Has(udpConns, udp[u].cid)
       /\ ~Has(udpTargets, udp[u].cid)

----------------------------------------------------------------------------
\* Properties of the teardown.

\* C14: teardown destroys every session held in the two tables and clears
\* them, throws nothing, and run again on its result changes nothing and
\* throws nothing; once the WebSocket has left OPEN no listener of a socket
\* of the tunnel (TCP connect, data, end, error; UDP message, error) and no
\* send callback puts a frame on it.
C14_TeardownQuiet ==
  /\ LET r == cleanup
     IN /\ r.branch # "throws"
        /\ r.sent = <<>>
        /\ r.tun.conns = EmptyMap
        /\ r.tun.udpConns = EmptyMap
        /\ \A k \in DOMAIN conns : r.tun.sess[conns[k]].st = "destroyed"
        /\ \A k \in DOMAIN udpConns : r.tun.udp[udpConns[k]].st = "closed"
        /\ cleanupOf(r.tun) = Result(r.tun, <<>>, "run")
  /\ wsState # "open" =>
       /\ \A r \in ListenerResults : r.sent = <<>>
       /\ \A u \in DOMAIN udp : \A err \in BOOLEAN : onUdpSent(u, err).sent = <<>>

\* The teardown ran on a tunnel that held a TCP stream and a UDP flow (the
\* sticky target of the flow is still there, which UDP_CLOSE would have
\* removed), and a listener or callback ran after it.
C14_Witness ==
  /\ wsState = "closed"
  /\ conns = EmptyMap
  /\ udpConns = EmptyMap
  /\ \E s \in DOMAIN sess : sess[s].st = "destroyed" /\ sess[s].wr # <<>>
  /\ \E u \in DOMAIN udp : udp[u].st = "closed" /\ Has(udpTargets, udp[u].cid)
  /\ branch = "senderr"

----------------------------------------------------------------------------
\* Properties of the relay of an established stream.

Established(s) == sess[s].st = "open"

\* C15: for each established TCP connection (of a non-empty CID), the payload
\* of a binary DATA:cid| frame of the client is written to its stream once,
\* after everything written before; a chunk read from the stream is emitted
\* as one DATA:cid| frame carrying it while the WebSocket is open; and a
\* frame of another CID changes nothing of what was written to it.
C15_RelayInOrder ==
  wsState = "open" =>
    \A s \in DOMAIN sess :
      (Established(s) /\ sess[s].cid # <<>>) =>
        /\ \A p \in Pays :
             onMessage(BinFrame("DATA", sess[s].cid \o <<"|">> \o p)).tun.sess[s].wr
               = Append(sess[s].wr, p)
        /\ \A f \in ClientFrames :
             FrameCid(f) # sess[s].cid => onMessage(f).tun.sess[s].wr = sess[s].wr
        /\ onData(s).sent
             = <<[frame |-> BinFrame("DATA", sess[s].cid \o <<"|">>
                                               \o RemoteChunk(ChunksRead(s) + 1)),
                  src |-> TcpSrc(s)]>>

----------------------------------------------------------------------------
\* Properties of two WebSockets of one process.

\* C16: a frame received on one WebSocket, a listener of its sockets, its
\* closing and its teardown leave the tables, the sockets and the frames of
\* the other WebSocket's tunnel as they are: every step either leaves the
\* other tunnel unchanged or is the passage from one WebSocket to the other.
C16_TunnelsIndependent ==
  [][peer' = peer \/ (peer' = Focus /\ Focus' = peer)]_vars

----------------------------------------------------------------------------
\* Properties of the sessions of the TCP table.

\* The handler left every entry of the TCP table that is not the socket s.
KeepsOthers(r, s) ==
  \A k \in DOMAIN conns :
    conns[k] # s => (Has(r.tun.conns, k) /\ r.tun.conns[k] = conns[k])

\* C17: the 'end' and the 'error' listener of a TCP session remove only the
\* session's own entry from the TCP table, never the entry of another
\* session under the same CID; so every established, not destroyed stream of
\* an open tunnel is the value the table holds under its CID.
C17_OwnEntryOnly ==
  wsState = "open" =>
    /\ \A s \in DOMAIN sess :
         /\ Established(s) => KeepsOthers(onEnd(s), s)
         /\ sess[s].st # "destroyed" => KeepsOthers(onError(s), s)
    /\ \A s \in DOMAIN sess :
         Established(s) => (Has(conns, sess[s].cid) /\ conns[sess[s].cid] = s)

\* The frames of the tag that the listeners of socket s have sent.
SentBy(s, tag) ==
  Len(SelectSeq(out, LAMBDA e : e.src = TcpSrc(s) /\ e.frame.tag = tag))

\* Closed: the remote side finished, or the socket is destroyed.
IsClosed(st) == st \in {"ended", "destroyed"}

\* The states of the sessions and of the table.
SessionShape ==
  /\ \A s \in DOMAIN sess :
       /\ sess[s].st = "dialing" => SentBy(s, "CONNECTED") = 0
       /\ SentBy(s, "CONNECTED") <= 1
       /\ sess[s].st # "open" => \A k \in DOMAIN conns : conns[k] # s
  /\ wsState = "open" =>
       \A s \in DOMAIN sess :
         sess[s].st = "dialing" =>
           /\ onError(s).sent = <<[frame |-> TextFrame("CLOSE", sess[s].cid), src |-> TcpSrc(s)]>>
           /\ onError(s).tun.sess[s].st = "destroyed"
           /\ \A k \in DOMAIN onError(s).tun.conns : onError(s).tun.conns[k] # s
           /\ onConnect(s).sent
                = <<[frame |-> TextFrame("CONNECTED", sess[s].cid), src |-> TcpSrc(s)]>>
           /\ onConnect(s).tun.sess[s].st = "open"
           /\ onConnect(s).tun.conns[sess[s].cid] = s

\* The steps of the sessions.
SessionStep ==
  \A s \in DOMAIN sess :
    /\ s \in DOMAIN sess'
    /\ sess[s].st = "dialing" => sess'[s].st # "ended"
    /\ sess[s].st = "open" => sess'[s].st # "dialing"
    /\ IsClosed(sess[s].st) => IsClosed(sess'[s].st)
    /\ SentBy(s, "CONNECTED")' > SentBy(s, "CONNECTED") => sess[s].st = "dialing" /\ sess'[s].st = "open"

\* C18: a TCP session moves only along Dialing -> Established -> Closed or
\* Dialing -> Closed.  A dial failure emits CLOSE:cid while the WebSocket is
\* open, no CONNECTED:cid, and does not put the session into the table; a
\* successful dial puts it there and emits CONNECTED:cid, once; no session
\* leaves Closed, and none but an established one is in the table.
C18_SessionLifecycle == []SessionShape /\ [][SessionStep]_vars

\* One session failed to dial and sent CLOSE without CONNECTED; another went
\* from Dialing through Established to Closed.
C18_Witness ==
  \E s, u \in DOMAIN sess :
    /\ sess[s].st = "destroyed"
    /\ SentBy(s, "CONNECTED") = 0
    /\ SentBy(s, "CLOSE") = 1
    /\ IsClosed(sess[u].st)
    /\ SentBy(u, "CONNECTED") = 1
    /\ SentBy(u, "CLOSE") = 1

\* The initial bytes of the open frame of s are the first write to s.
FirstIsFirst(c) ==
  c.first # <<>> =>
    /\ c.st \in {"open", "ended"} => c.wr # <<>>
    /\ c.wr # <<>> => Head(c.wr) = c.first

\* C19: the initial bytes of a TCP open frame are the first bytes written to
\* the new stream: nothing is written to a stream that is still dialing, no
\* payload of a DATA:cid frame (text or binary) is written before them, and
\* a DATA:cid frame that arrives while cid is dialing is written after them
\* or dropped, and throws nothing.
C19_InitialBytesFirst ==
  /\ \A s \in DOMAIN sess :
       /\ sess[s].st = "dialing" => sess[s].wr = <<>>
       /\ FirstIsFirst(sess[s])
  /\ wsState = "open" =>
       \A f \in ClientFrames \cup FirstFrames :
         f.tag = "DATA" =>
           LET r == onMessage(f)
           IN /\ r.branch # "throws"
              /\ \A s \in DOMAIN sess :
                   /\ sess[s].st = "dialing" => r.tun.sess[s].wr = <<>>
                   /\ FirstIsFirst(r.tun.sess[s])

\* A stream was opened with initial bytes, and the payload of a DATA frame
\* was written to it after them once it was established.
C19_Witness ==
  \E s \in DOMAIN sess :
    /\ sess[s].first # <<>>
    /\ sess[s].wr = <<sess[s].first, <<"y">>>>
    /\ sess[s].st = "open"

----------------------------------------------------------------------------
\* The fields of a body split on "|" up to n fields: the n-th field is the
\* rest of the body, "|" characters included.
RECURSIVE SplitUpTo(_, _)
SplitUpTo(s, n) ==
  LET i == IndexOf(s, "|")
  IN IF n = 1 \/ i = -1 THEN <<s>>
     ELSE <<SliceTo(s, i)>> \o SplitUpTo(SliceFrom(s, i + 1), n - 1)

\* The frame is a text frame of the tag with every field of the tag present.
FullText(f, tag) ==
  /\ ~f.bin
  /\ f.tag = tag
  /\ Len(SplitUpTo(f.body, FieldCount(tag))) = FieldCount(tag)

\* C20: a text frame is split on "|" only up to the field count of its tag,
\* and the last field keeps its "|" characters: the initial bytes of a TCP
\* frame are everything after the second "|", the payload a text DATA frame
\* writes to its established stream is everything after the first "|", and
\* a CLAIM frame with two or more fields is answered with CLAIM_ACK and the
\* whole body.
C20_LastFieldKeepsPipes ==
  wsState = "open" =>
    \A f \in ClientFrames :
      LET r == onMessage(f)
          tcp == SplitUpTo(f.body, 3)
          dat == SplitUpTo(f.body, 2)
      IN /\ FullText(f, "TCP") /\ r.branch # "throws" =>
              /\ Len(r.tun.sess) = Len(sess) + 1
              /\ r.tun.sess[Len(sess) + 1].first = tcp[3]
         /\ FullText(f, "DATA") /\ Has(conns, dat[1])
               /\ sess[conns[dat[1]]].st # "destroyed" =>
              r.tun.sess[conns[dat[1]]].wr = Append(sess[conns[dat[1]]].wr, dat[2])
         /\ FullText(f, "CLAIM") =>
              r.sent = <<[frame |-> TextFrame("CLAIM_ACK", f.body), src |-> NoSrc]>>

====
